---- MODULE Spec2Model ----
(***************************************************************************)
(* Model of the seller-apis scripts (seller.py for Ozon, market.py for     *)
(* Yandex Market): the pure helpers price_conversion and divide, the list  *)
(* builders create_stocks / create_prices, and the two main() runs with    *)
(* their HTTP calls.                                                       *)
(*                                                                         *)
(* Python text is a sequence of one-character strings.  A spreadsheet cell *)
(* is a tagged value: [t |-> "int", v |-> 7] or [t |-> "str", v |-> <<..>>]*)
(* (pandas yields ints for numeric cells and str for text cells; with      *)
(* keep_default_na=False an empty cell is the empty str).                  *)
(***************************************************************************)
EXTENDS Integers, Sequences, FiniteSets, TLC

VARIABLES
    script,          \* "seller" | "market" | "none": which file's code runs
    pc,              \* position of the running function / main
    price,           \* argument of price_conversion
    converted,       \* its return value
    lst,             \* argument lst of divide
    n,               \* argument n of divide
    groups,          \* list(divide(lst, n))
    watch_remnants,  \* the parsed spreadsheet rows held by the caller
    offer_ids,       \* the caller's offer id list
    listing,         \* what the marketplace serves, per campaign
    sheet,           \* the spreadsheet the vendor site serves
    stocks,          \* result of create_stocks
    prices,          \* result of create_prices
    queue,           \* batches of the running for-loop still to push
    log,             \* HTTP requests issued so far, in order
    raised,          \* exception raised ("none" when there is none)
    printed,         \* message printed by main's handler ("none" if nothing)
    pending,         \* coroutine objects created and never awaited
    last_id,         \* get_offer_ids: the cursor (last_id in seller, page in market)
    product_list,    \* get_offer_ids: the items accumulated so far
    some_prod,       \* get_offer_ids: the latest response of get_product_list
    server,          \* the listing server: its page length and reported total
    coroutine        \* the upload coroutine being run, <<>> when there is none

\* the state of a running get_offer_ids and of the server it talks to
PagingVars == <<last_id, product_list, some_prod, server>>

vars == <<script, pc, price, converted, lst, n, groups, watch_remnants,
          offer_ids, listing, sheet, stocks, prices, queue, log, raised,
          printed, pending, last_id, product_list, some_prod, server,
          coroutine>>

----------------------------------------------------------------------------
(* Bounds of the model *)

MaxPriceLen == 4
MaxLen == 11
MaxN == 5
MaxRows == 2
MaxOffers == 2

----------------------------------------------------------------------------
(* Python values and text *)

Digits == {"0", "1", "2", "3", "4", "5", "6", "7", "8", "9"}

DigitSeq == <<"0", "1", "2", "3", "4", "5", "6", "7", "8", "9">>

DigitVal(c) == CHOOSE d \in 0..9 : DigitSeq[d + 1] = c

PyInt(i) == [t |-> "int", v |-> i]

PyStr(s) == [t |-> "str", v |-> s]

BoundedSeq(S, k) == UNION {[1..m -> S] : m \in 0..k}

Min(a, b) == IF a < b THEN a ELSE b

\* str(i) for an int i >= 0: its decimal digits
RECURSIVE IntToStr(_)
IntToStr(i) ==
    IF i < 10 THEN <<DigitSeq[i + 1]>>
    ELSE IntToStr(i \div 10) \o <<DigitSeq[(i % 10) + 1]>>

\* str(x): text stays, an int is written in decimal
py_str(x) == IF x.t = "str" THEN x.v ELSE IntToStr(x.v)

\* text.strip(): leading and trailing blanks removed
RECURSIVE LStrip(_)
LStrip(s) == IF s # <<>> /\ Head(s) = " " THEN LStrip(Tail(s)) ELSE s

RECURSIVE RStrip(_)
RStrip(s) ==
    IF s # <<>> /\ s[Len(s)] = " " THEN RStrip(SubSeq(s, 1, Len(s) - 1)) ELSE s

RECURSIVE DigitsValue(_)
DigitsValue(s) ==
    IF s = <<>> THEN 0
    ELSE 10 * DigitsValue(SubSeq(s, 1, Len(s) - 1)) + DigitVal(s[Len(s)])

\* int(x): an int is returned as is; text is stripped, may carry a sign, and
\* must then be a non-empty run of digits, else ValueError
py_int(x) ==
    IF x.t = "int" THEN [ok |-> TRUE, v |-> x.v, exc |-> "none"]
    ELSE LET s == RStrip(LStrip(x.v))
             signed == s # <<>> /\ Head(s) \in {"+", "-"}
             body == IF signed THEN Tail(s) ELSE s
         IN  IF body # <<>> /\ \A i \in 1..Len(body) : body[i] \in Digits
             THEN [ok |-> TRUE,
                   v |-> IF signed /\ Head(s) = "-" THEN 0 - DigitsValue(body)
                         ELSE DigitsValue(body),
                   exc |-> "none"]
             ELSE [ok |-> FALSE, v |-> 0, exc |-> "ValueError"]

----------------------------------------------------------------------------
(* seller.price_conversion *)

\* text.split(sep) for a one-character separator
RECURSIVE split(_, _)
split(s, sep) ==
    IF \A i \in 1..Len(s) : s[i] # sep THEN <<s>>
    ELSE LET k == CHOOSE i \in 1..Len(s) :
                    s[i] = sep /\ \A j \in 1..(i - 1) : s[j] # sep
         IN  <<SubSeq(s, 1, k - 1)>> \o split(SubSeq(s, k + 1, Len(s)), sep)

\* re.sub("[^0-9]", "", s): every character outside 0-9 is replaced by ""
RECURSIVE re_sub_non_digit(_)
re_sub_non_digit(s) ==
    IF s = <<>> THEN <<>>
    ELSE (IF Head(s) \notin Digits THEN <<>> ELSE <<Head(s)>>)
         \o re_sub_non_digit(Tail(s))

\* a slip: the last part of the split is taken instead of the first
price_conversion_last(p) == re_sub_non_digit(split(p, ".")[Len(split(p, "."))])

price_conversion(p) == re_sub_non_digit(split(p, ".")[1])

----------------------------------------------------------------------------
(* seller.divide *)

\* range(start, stop, step) for step >= 1, as the list of its values
RECURSIVE range(_, _, _)
range(start, stop, step) ==
    IF start < stop THEN <<start>> \o range(start + step, stop, step) ELSE <<>>

\* l[i:j] for 0 <= i <= j: the slice is clamped to the list
slice(l, i, j) == SubSeq(l, Min(i, Len(l)) + 1, Min(j, Len(l)))

\* a slip: the slice is one item short
divide_short(l, k) ==
    LET starts == range(0, Len(l), k)
    IN  [g \in 1..Len(starts) |-> slice(l, starts[g], starts[g] + k - 1)]

\* list(divide(lst, n)): the groups the generator yields, in order
divide(l, k) ==
    LET starts == range(0, Len(l), k)
    IN  [g \in 1..Len(starts) |-> slice(l, starts[g], starts[g] + k)]

----------------------------------------------------------------------------
(* Spreadsheet rows, SKUs and marketplace items *)

\* "5'990.00 rub.": the price text of the docstring of price_conversion, its
\* three Cyrillic letters written r, u, b (letters outside 0-9 like them)
ExamplePrice ==
    <<"5", "'", "9", "9", "0", ".", "0", "0", " ", "r", "u", "b", ".">>

OtherPrice == <<"9", "9", "0", ".", "5", "0">>

PriceChars == {"5", "0", ".", "'", "r"}

PriceTexts == BoundedSeq(PriceChars, MaxPriceLen) \cup {ExamplePrice, OtherPrice}

\* the codes of the spreadsheet (numeric cells) and the SKUs a marketplace lists
Codes == {PyInt(1), PyInt(2)}

Skus == {<<"1">>, <<"2">>, <<"3">>}

GT10 == <<">", "1", "0">>

\* quantity cells: ">10", "1", "5", the numbers 1 and 7, and the empty cell
Quantities ==
    {PyStr(GT10), PyStr(<<"1">>), PyStr(<<"5">>), PyInt(1), PyInt(7), PyStr(<<>>)}

\* one row of the spreadsheet: its code, price and quantity cells
Row(c, q) ==
    [code |-> c, quantity |-> q,
     price |-> IF c = PyInt(1) THEN ExamplePrice ELSE OtherPrice]

Remnants == {Row(c, q) : c \in Codes, q \in Quantities}

\* x in l, for a Python list l
In(x, l) == \E i \in 1..Len(l) : l[i] = x

\* a slip: the matched offer id stays in the list
remove_nothing(l, x) == l

\* l.remove(x): the first occurrence of x is removed (x is known to be in l)
remove(l, x) ==
    LET k == CHOOSE i \in 1..Len(l) : l[i] = x /\ \A j \in 1..(i - 1) : l[j] # x
    IN  SubSeq(l, 1, k - 1) \o SubSeq(l, k + 1, Len(l))

SellerStock(sku, stock) == [offer_id |-> sku, stock |-> stock]

MarketStock(sku, warehouse_id, stock, date) ==
    [sku |-> sku, warehouseId |-> warehouse_id,
     items |-> <<[count |-> stock, type |-> "FIT", updatedAt |-> date]>>]

SellerPrice(sku, p) ==
    [auto_action_enabled |-> "UNKNOWN", currency_code |-> "RUB",
     offer_id |-> sku, old_price |-> "0", price |-> p]

MarketPrice(sku, value) ==
    [id |-> sku, price |-> [value |-> value, currencyId |-> "RUR"]]

----------------------------------------------------------------------------
(* create_stocks and create_prices.  Each operator returns what the call    *)
(* leaves behind: the returned list, the caller's offer id list after the   *)
(* call, and the exception raised ("none" when the call returns).           *)

\* a slip: the quantity "1" is passed through like any other number
seller_stock_of_plain(watch) ==
    LET count == py_str(watch.quantity)
    IN  IF count = GT10 THEN [ok |-> TRUE, v |-> 100, exc |-> "none"]
        ELSE py_int(watch.quantity)

\* seller.create_stocks, the branch on the quantity cell of a listed row:
\* ">10" -> 100, "1" -> 0, else int(cell), which may raise
seller_stock_of(watch) ==
    LET count == py_str(watch.quantity)
    IN  IF count = GT10 THEN [ok |-> TRUE, v |-> 100, exc |-> "none"]
        ELSE IF count = <<"1">> THEN [ok |-> TRUE, v |-> 0, exc |-> "none"]
        ELSE py_int(watch.quantity)

\* market.create_stocks, the same branch
market_stock_of(watch) ==
    LET count == py_str(watch.quantity)
    IN  IF count = GT10 THEN [ok |-> TRUE, v |-> 100, exc |-> "none"]
        ELSE IF count = <<"1">> THEN [ok |-> TRUE, v |-> 0, exc |-> "none"]
        ELSE py_int(watch.quantity)

\* the first loop of seller.create_stocks from row i on
RECURSIVE seller_stocks_rows(_, _, _, _)
seller_stocks_rows(rows, i, acc, ids) ==
    IF i > Len(rows) THEN [stocks |-> acc, offer_ids |-> ids, raised |-> "none"]
    ELSE LET watch == rows[i]
             sku == py_str(watch.code)
         IN  IF In(sku, ids)
             THEN LET stock == seller_stock_of(watch)
                  IN  IF stock.ok
                      THEN seller_stocks_rows(rows, i + 1,
                               Append(acc, SellerStock(sku, stock.v)),
                               remove(ids, sku))
                      ELSE [stocks |-> <<>>, offer_ids |-> ids,
                            raised |-> stock.exc]
             ELSE seller_stocks_rows(rows, i + 1, acc, ids)

\* a slip: the unmatched offer ids are not appended
seller_create_stocks_no_rest(rows, ids) == seller_stocks_rows(rows, 1, <<>>, ids)

seller_create_stocks(rows, ids) ==
    LET first == seller_stocks_rows(rows, 1, <<>>, ids)
    IN  IF first.raised # "none" THEN first
        ELSE [stocks |-> first.stocks \o
                         [k \in 1..Len(first.offer_ids) |->
                              SellerStock(first.offer_ids[k], 0)],
              offer_ids |-> first.offer_ids,
              raised |-> "none"]

\* the first loop of market.create_stocks from row i on
RECURSIVE market_stocks_rows(_, _, _, _, _, _)
market_stocks_rows(rows, i, acc, ids, warehouse_id, date) ==
    IF i > Len(rows) THEN [stocks |-> acc, offer_ids |-> ids, raised |-> "none"]
    ELSE LET watch == rows[i]
             sku == py_str(watch.code)
         IN  IF In(sku, ids)
             THEN LET stock == market_stock_of(watch)
                  IN  IF stock.ok
                      THEN market_stocks_rows(rows, i + 1,
                               Append(acc, MarketStock(sku, warehouse_id,
                                                       stock.v, date)),
                               remove(ids, sku), warehouse_id, date)
                      ELSE [stocks |-> <<>>, offer_ids |-> ids,
                            raised |-> stock.exc]
             ELSE market_stocks_rows(rows, i + 1, acc, ids, warehouse_id, date)

market_create_stocks(rows, ids, warehouse_id, date) ==
    LET first == market_stocks_rows(rows, 1, <<>>, ids, warehouse_id, date)
    IN  IF first.raised # "none" THEN first
        ELSE [stocks |-> first.stocks \o
                         [k \in 1..Len(first.offer_ids) |->
                              MarketStock(first.offer_ids[k], warehouse_id,
                                          0, date)],
              offer_ids |-> first.offer_ids,
              raised |-> "none"]

RECURSIVE seller_prices_rows(_, _, _, _)
seller_prices_rows(rows, i, acc, ids) ==
    IF i > Len(rows) THEN acc
    ELSE LET watch == rows[i]
             sku == py_str(watch.code)
         IN  IF In(sku, ids)
             THEN seller_prices_rows(rows, i + 1,
                      Append(acc, SellerPrice(sku, price_conversion(watch.price))),
                      ids)
             ELSE seller_prices_rows(rows, i + 1, acc, ids)

seller_create_prices(rows, ids) ==
    [prices |-> seller_prices_rows(rows, 1, <<>>, ids), offer_ids |-> ids,
     raised |-> "none"]

RECURSIVE market_prices_rows(_, _, _, _)
market_prices_rows(rows, i, acc, ids) ==
    IF i > Len(rows) THEN [prices |-> acc, offer_ids |-> ids, raised |-> "none"]
    ELSE LET watch == rows[i]
             sku == py_str(watch.code)
         IN  IF In(sku, ids)
             THEN LET value == py_int(PyStr(price_conversion(watch.price)))
                  IN  IF value.ok
                      THEN market_prices_rows(rows, i + 1,
                               Append(acc, MarketPrice(sku, value.v)), ids)
                      ELSE [prices |-> <<>>, offer_ids |-> ids,
                            raised |-> value.exc]
             ELSE market_prices_rows(rows, i + 1, acc, ids)

market_create_prices(rows, ids) == market_prices_rows(rows, 1, <<>>, ids)

----------------------------------------------------------------------------
(* Specifications of the single calls *)

Dates == {"2024-01-01T00:00:00Z", "2024-01-01T00:00:01Z"}

\* the campaign whose listing a call of the script works on first
FirstCampaign(s) == IF s = "seller" THEN "ozon" ELSE "fbs"

Warehouse(c) == IF c = "fbs" THEN "WAREHOUSE_FBS_ID" ELSE "WAREHOUSE_DBS_ID"

PriceIdle == price = <<>> /\ converted = <<>>

DivideIdle == lst = <<>> /\ n = 1 /\ groups = <<>>

CreateIdle ==
    /\ watch_remnants = <<>> /\ offer_ids = <<>> /\ stocks = <<>>
    /\ prices = <<>> /\ raised = "none"

MainIdle ==
    /\ queue = <<>> /\ log = <<>> /\ printed = "none" /\ pending = <<>>
    /\ coroutine = <<>>

PagingIdle ==
    /\ last_id = <<>> /\ product_list = <<>> /\ some_prod = <<>>
    /\ server = <<>>

\* ---- price_conversion applied to a price text
InitPrice ==
    /\ script = "none" /\ pc = "call"
    /\ price \in PriceTexts /\ converted = <<>>
    /\ DivideIdle /\ CreateIdle /\ MainIdle /\ PagingIdle
    /\ listing = <<>> /\ sheet = <<>>

PriceConversion ==
    /\ script = "none" /\ pc = "call" /\ price \in PriceTexts
    /\ converted' = price_conversion(price)
    /\ pc' = "price_returned"
    /\ UNCHANGED <<PagingVars, coroutine, script, price, lst, n, groups,
                   watch_remnants, offer_ids, listing, sheet, stocks, prices,
                   queue, log, raised, printed, pending>>

NextPrice == PriceConversion

SpecPrice == InitPrice /\ [][NextPrice]_vars

\* ---- list(divide(lst, n)) applied to a list and a chunk size n >= 1
InitDivide ==
    /\ script = "none" /\ pc = "call"
    /\ lst \in {[i \in 1..L |-> i] : L \in 0..MaxLen}
    /\ n \in 1..MaxN
    /\ groups = <<>>
    /\ PriceIdle /\ CreateIdle /\ MainIdle /\ PagingIdle
    /\ listing = <<>> /\ sheet = <<>>

Divide ==
    /\ script = "none" /\ pc = "call" /\ n >= 1
    /\ groups' = divide(lst, n)
    /\ pc' = "divide_returned"
    /\ UNCHANGED <<PagingVars, coroutine, script, price, converted, lst, n,
                   watch_remnants, offer_ids, listing, sheet, stocks, prices,
                   queue, log, raised, printed, pending>>

NextDivide == Divide

SpecDivide == InitDivide /\ [][NextDivide]_vars

\* ---- create_stocks / create_prices called on a spreadsheet and a listing.
\* sheet and listing keep the two lists as they were passed.
InitCreate ==
    /\ script \in {"seller", "market"} /\ pc = "call"
    /\ watch_remnants \in BoundedSeq(Remnants, MaxRows)
    /\ offer_ids \in BoundedSeq(Skus, MaxOffers)
    /\ sheet = watch_remnants
    /\ listing = [c \in {FirstCampaign(script)} |-> offer_ids]
    /\ stocks = <<>> /\ prices = <<>> /\ raised = "none"
    /\ PriceIdle /\ DivideIdle /\ MainIdle /\ PagingIdle

SellerCreateStocks ==
    /\ script = "seller" /\ pc = "call"
    /\ LET r == seller_create_stocks(watch_remnants, offer_ids)
       IN  /\ stocks' = r.stocks
           /\ offer_ids' = r.offer_ids
           /\ raised' = r.raised
    /\ pc' = "stocks_done"
    /\ UNCHANGED <<PagingVars, coroutine, script, price, converted, lst, n,
                   groups, watch_remnants, listing, sheet, prices, queue, log,
                   printed, pending>>

MarketCreateStocks ==
    /\ script = "market" /\ pc = "call"
    /\ \E date \in Dates :
         LET r == market_create_stocks(watch_remnants, offer_ids,
                                       Warehouse("fbs"), date)
         IN  /\ stocks' = r.stocks
             /\ offer_ids' = r.offer_ids
             /\ raised' = r.raised
    /\ pc' = "stocks_done"
    /\ UNCHANGED <<PagingVars, coroutine, script, price, converted, lst, n,
                   groups, watch_remnants, listing, sheet, prices, queue, log,
                   printed, pending>>

SellerCreatePrices ==
    /\ script = "seller" /\ pc = "call"
    /\ LET r == seller_create_prices(watch_remnants, offer_ids)
       IN  /\ prices' = r.prices
           /\ offer_ids' = r.offer_ids
           /\ raised' = r.raised
    /\ pc' = "prices_done"
    /\ UNCHANGED <<PagingVars, coroutine, script, price, converted, lst, n,
                   groups, watch_remnants, listing, sheet, stocks, queue, log,
                   printed, pending>>

MarketCreatePrices ==
    /\ script = "market" /\ pc = "call"
    /\ LET r == market_create_prices(watch_remnants, offer_ids)
       IN  /\ prices' = r.prices
           /\ offer_ids' = r.offer_ids
           /\ raised' = r.raised
    /\ pc' = "prices_done"
    /\ UNCHANGED <<PagingVars, coroutine, script, price, converted, lst, n,
                   groups, watch_remnants, listing, sheet, stocks, queue, log,
                   printed, pending>>

NextCreate ==
    \/ SellerCreateStocks
    \/ MarketCreateStocks
    \/ SellerCreatePrices
    \/ MarketCreatePrices

SpecCreate == InitCreate /\ [][NextCreate]_vars

----------------------------------------------------------------------------
(* The listing server of get_product_list: it serves the finite listing of  *)
(* a campaign page by page.  A cursor is the text of the position reached;  *)
(* the empty text asks for the first page.                                  *)

MaxListed == 3
MaxPage == 2

\* the list requests followed per campaign
MaxListRequests == 12

\* "limit" of the request payloads
SELLER_LIMIT == 1000
MARKET_LIMIT == 200

\* Python's None: what dict.get returns for a missing or null entry
PyNone == [t |-> "None", v |-> <<>>]

\* not x, for a text or None
Falsy(x) == x.t = "None" \/ x.v = <<>>

CursorOf(pos) == IF pos = 0 THEN PyStr(<<>>) ELSE PyStr(IntToStr(pos))

PositionOf(cursor) == IF cursor.v = <<>> THEN 0 ELSE DigitsValue(cursor.v)

\* the items of the page that starts after position pos
PageItems(c, pos, limit) ==
    SubSeq(listing[c], pos + 1,
           Min(pos + Min(limit, server.page_len), Len(listing[c])))

\* the "result" of POST /v2/product/list for the cursor sent
OzonResult(cursor) ==
    LET pos == PositionOf(cursor)
        page == PageItems("ozon", pos, SELLER_LIMIT)
    IN  [items |-> [k \in 1..Len(page) |->
                       [product_id |-> pos + k, offer_id |-> page[k]]],
         total |-> server.total,
         last_id |-> CursorOf(pos + Len(page))]

\* the "result" of GET offer-mapping-entries for the page token sent; the
\* last page carries no nextPageToken
YandexResult(c, cursor) ==
    LET pos == PositionOf(cursor)
        page == PageItems(c, pos, MARKET_LIMIT)
    IN  [offerMappingEntries |->
             [k \in 1..Len(page) |-> [offer |-> [shopSku |-> page[k]]]],
         paging |->
             [nextPageToken |->
                  IF pos + Len(page) < Len(listing[c])
                  THEN CursorOf(pos + Len(page)) ELSE PyNone]]

----------------------------------------------------------------------------
(* The two main() runs.  Every HTTP call either succeeds or raises; a call  *)
(* that raised inside main's try block ends the run in the handler.         *)

\* chunk sizes of the push loops
SELLER_STOCKS_CHUNK == 100
SELLER_PRICES_CHUNK == 900
MARKET_STOCKS_CHUNK == 2000

\* what raise_for_status / requests raise: a non-2xx status, a read timeout,
\* a connection error
HttpFailures == {"HTTPError", "ReadTimeout", "ConnectionError"}

Outcomes == {"ok"} \cup HttpFailures

\* the except clauses of main, first match wins
Handler(exc) ==
    IF exc = "ReadTimeout" THEN "read timeout"
    ELSE IF exc = "ConnectionError" THEN "connection error"
    ELSE "ERROR_2"

Campaigns(s) == IF s = "seller" THEN {"ozon"} ELSE {"fbs", "dbs"}

\* the campaign main is working on: market.main passes the FBS ids up to its
\* first upload_prices call and the DBS ids after it
CurCampaign ==
    IF script = "seller" THEN "ozon"
    ELSE IF pending = <<>> THEN "fbs" ELSE "dbs"

Request(op, c, body, outcome) ==
    [op |-> op, campaign |-> c, body |-> body, ok |-> (outcome = "ok")]

\* a listing long enough to need two stock batches
BulkListing(s) ==
    [i \in 1..((IF s = "seller" THEN SELLER_STOCKS_CHUNK
                ELSE MARKET_STOCKS_CHUNK) + 1) |-> IntToStr(i)]

MainListings(s) ==
    {<<>>, <<(<<"1">>)>>, <<(<<"3">>), (<<"1">>)>>, <<(<<"2">>), (<<"2">>)>>,
     <<(<<"1">>), (<<"2">>), (<<"3">>)>>, BulkListing(s)}

MainSheets ==
    {<<>>,
     <<Row(PyInt(1), PyStr(GT10))>>,
     <<Row(PyInt(1), PyStr(GT10)), Row(PyInt(2), PyInt(7))>>,
     <<Row(PyInt(2), PyStr(<<>>))>>,
     <<Row(PyInt(1), PyStr(<<"1">>)), Row(PyInt(1), PyStr(<<"5">>))>>}

\* the "limit" a script asks for
Limit(s) == IF s = "seller" THEN SELLER_LIMIT ELSE MARKET_LIMIT

\* the servers of a run: one that fills every page up to the limit asked
\* for and, for the short listings, ones that serve shorter pages; the
\* total an Ozon server reports need not be the number of items it serves
MainServers(s, ls) ==
    LET bulk == \E c \in DOMAIN ls : Len(ls[c]) > MaxListed
        lens == {Limit(s)} \cup (IF bulk THEN {} ELSE 1..MaxPage)
        totals == IF s = "seller"
                  THEN {Len(ls["ozon"]), Len(ls["ozon"]) + 1}
                       \cup (0..(MaxListed + 1))
                  ELSE {0}
    IN  {[page_len |-> k, total |-> t] : k \in lens, t \in totals}

\* the list requests sent so far for campaign c
ListRequests(c) ==
    Cardinality({i \in 1..Len(log) :
                    log[i].op = "list" /\ log[i].campaign = c})

InitMain ==
    /\ script \in {"seller", "market"} /\ pc = "start"
    /\ sheet \in MainSheets
    /\ listing \in [Campaigns(script) -> MainListings(script)]
    /\ server \in MainServers(script, listing)
    /\ last_id = <<>> /\ product_list = <<>> /\ some_prod = <<>>
    /\ watch_remnants = <<>> /\ offer_ids = <<>> /\ stocks = <<>>
    /\ prices = <<>> /\ raised = "none"
    /\ PriceIdle /\ DivideIdle /\ MainIdle

\* the exception exc reaches the except clauses of main: a message is
\* printed and main returns
Caught(exc) ==
    /\ raised' = exc
    /\ printed' = Handler(exc)
    /\ pc' = "returned"

\* ---- seller.main

\* line 310 enters get_offer_ids, lines 67-68: last_id = "",
\* product_list = []
SellerGetOfferIds ==
    /\ script = "seller" /\ pc = "start"
    /\ last_id' = PyStr(<<>>)
    /\ product_list' = <<>>
    /\ pc' = "get_product_list"
    /\ UNCHANGED <<coroutine, script, price, converted, lst, n, groups,
                   watch_remnants, offer_ids, listing, sheet, stocks, prices,
                   queue, log, raised, printed, pending, some_prod, server>>

\* line 70 under main: some_prod = get_product_list(last_id, ...); what the
\* request raises passes through get_offer_ids to the handler of main
SellerMainGetProductList ==
    /\ script = "seller" /\ pc = "get_product_list"
    /\ ListRequests("ozon") < MaxListRequests
    /\ \E outcome \in Outcomes :
         /\ log' = Append(log, Request("list", "ozon", <<>>, outcome))
         /\ IF outcome = "ok"
            THEN /\ some_prod' = OzonResult(last_id)
                 /\ pc' = "extend"
                 /\ UNCHANGED <<raised, printed>>
            ELSE /\ Caught(outcome)
                 /\ UNCHANGED some_prod
    /\ UNCHANGED <<coroutine, script, price, converted, lst, n, groups,
                   watch_remnants, offer_ids, listing, sheet, stocks, prices,
                   queue, pending, last_id, product_list, server>>

\* lines 71-79 under main: the rest of one turn of the loop; on break the
\* offer ids of the accumulated items are returned to line 310
SellerMainExtend ==
    /\ script = "seller" /\ pc = "extend"
    /\ product_list' = product_list \o some_prod.items
    /\ last_id' = some_prod.last_id
    /\ IF some_prod.total = Len(product_list')
       THEN /\ offer_ids' = [k \in 1..Len(product_list') |->
                                product_list'[k].offer_id]
            /\ pc' = "download_stock"
       ELSE /\ pc' = "get_product_list"
            /\ UNCHANGED offer_ids
    /\ UNCHANGED <<coroutine, script, price, converted, lst, n, groups,
                   watch_remnants, listing, sheet, stocks, prices, queue, log,
                   raised, printed, pending, some_prod, server>>

\* line 311: watch_remnants = download_stock()
SellerDownloadStock ==
    /\ script = "seller" /\ pc = "download_stock"
    /\ \E outcome \in Outcomes :
         /\ log' = Append(log, Request("download", "vendor", <<>>, outcome))
         /\ IF outcome = "ok"
            THEN /\ watch_remnants' = sheet
                 /\ pc' = "create_stocks"
                 /\ UNCHANGED <<raised, printed>>
            ELSE /\ Caught(outcome)
                 /\ UNCHANGED watch_remnants
    /\ UNCHANGED <<PagingVars, coroutine, script, price, converted, lst, n,
                   groups, offer_ids, listing, sheet, stocks, prices, queue,
                   pending>>

\* lines 313-314: stocks = create_stocks(...); list(divide(stocks, 100))
SellerMainCreateStocks ==
    /\ script = "seller" /\ pc = "create_stocks"
    /\ LET r == seller_create_stocks(watch_remnants, offer_ids)
       IN  /\ offer_ids' = r.offer_ids
           /\ IF r.raised = "none"
              THEN /\ stocks' = r.stocks
                   /\ queue' = divide(r.stocks, SELLER_STOCKS_CHUNK)
                   /\ pc' = "update_stocks"
                   /\ UNCHANGED <<raised, printed>>
              ELSE /\ Caught(r.raised)
                   /\ UNCHANGED <<stocks, queue>>
    /\ UNCHANGED <<PagingVars, coroutine, script, price, converted, lst, n,
                   groups, watch_remnants, listing, sheet, prices, log,
                   pending>>

\* a slip: a failed push is swallowed and the loop goes on
SellerUpdateStocksGoOn ==
    /\ script = "seller" /\ pc = "update_stocks" /\ queue # <<>>
    /\ \E outcome \in Outcomes :
         log' = Append(log, Request("stocks", "ozon", Head(queue), outcome))
    /\ queue' = Tail(queue)
    /\ UNCHANGED <<PagingVars, coroutine, script, pc, price, converted, lst,
                   n, groups, watch_remnants, offer_ids, listing, sheet,
                   stocks, prices, raised, printed, pending>>

\* line 315: one turn of the loop, update_stocks(some_stock, ...)
SellerUpdateStocks ==
    /\ script = "seller" /\ pc = "update_stocks" /\ queue # <<>>
    /\ \E outcome \in Outcomes :
         /\ log' = Append(log, Request("stocks", "ozon", Head(queue), outcome))
         /\ IF outcome = "ok"
            THEN /\ queue' = Tail(queue)
                 /\ UNCHANGED <<pc, raised, printed>>
            ELSE /\ Caught(outcome)
                 /\ UNCHANGED queue
    /\ UNCHANGED <<PagingVars, coroutine, script, price, converted, lst, n,
                   groups, watch_remnants, offer_ids, listing, sheet, stocks,
                   prices, pending>>

\* lines 317-318: prices = create_prices(...); list(divide(prices, 900))
SellerMainCreatePrices ==
    /\ script = "seller" /\ pc = "update_stocks" /\ queue = <<>>
    /\ LET r == seller_create_prices(watch_remnants, offer_ids)
       IN  /\ prices' = r.prices
           /\ offer_ids' = r.offer_ids
           /\ queue' = divide(r.prices, SELLER_PRICES_CHUNK)
    /\ pc' = "update_price"
    /\ UNCHANGED <<PagingVars, coroutine, script, price, converted, lst, n,
                   groups, watch_remnants, listing, sheet, stocks, log,
                   raised, printed, pending>>

\* line 319: one turn of the loop, update_price(some_price, ...)
SellerUpdatePrice ==
    /\ script = "seller" /\ pc = "update_price" /\ queue # <<>>
    /\ \E outcome \in Outcomes :
         /\ log' = Append(log, Request("prices", "ozon", Head(queue), outcome))
         /\ IF outcome = "ok"
            THEN /\ queue' = Tail(queue)
                 /\ UNCHANGED <<pc, raised, printed>>
            ELSE /\ Caught(outcome)
                 /\ UNCHANGED queue
    /\ UNCHANGED <<PagingVars, coroutine, script, price, converted, lst, n,
                   groups, watch_remnants, offer_ids, listing, sheet, stocks,
                   prices, pending>>

\* the try block is left after the last price batch
SellerReturn ==
    /\ script = "seller" /\ pc = "update_price" /\ queue = <<>>
    /\ pc' = "returned"
    /\ UNCHANGED <<PagingVars, coroutine, script, price, converted, lst, n,
                   groups, watch_remnants, offer_ids, listing, sheet, stocks,
                   prices, queue, log, raised, printed, pending>>

\* ---- market.main

\* line 305: watch_remnants = download_stock(), before the try block
MarketDownloadStock ==
    /\ script = "market" /\ pc = "start"
    /\ \E outcome \in Outcomes :
         /\ log' = Append(log, Request("download", "vendor", <<>>, outcome))
         /\ IF outcome = "ok"
            THEN /\ watch_remnants' = sheet
                 /\ pc' = "get_offer_ids"
                 /\ UNCHANGED raised
            ELSE /\ raised' = outcome
                 /\ pc' = "propagated"
                 /\ UNCHANGED watch_remnants
    /\ UNCHANGED <<PagingVars, coroutine, script, price, converted, lst, n,
                   groups, offer_ids, listing, sheet, stocks, prices, queue,
                   printed, pending>>

\* lines 308 and 317 enter get_offer_ids, lines 140-141: page = "",
\* product_list = []
MarketGetOfferIds ==
    /\ script = "market" /\ pc = "get_offer_ids"
    /\ last_id' = PyStr(<<>>)
    /\ product_list' = <<>>
    /\ pc' = "get_product_list"
    /\ UNCHANGED <<coroutine, script, price, converted, lst, n, groups,
                   watch_remnants, offer_ids, listing, sheet, stocks, prices,
                   queue, log, raised, printed, pending, some_prod, server>>

\* line 143 under main: some_prod = get_product_list(page, campaign, ...);
\* what the request raises passes through get_offer_ids to the handler
MarketMainGetProductList ==
    /\ script = "market" /\ pc = "get_product_list"
    /\ ListRequests(CurCampaign) < MaxListRequests
    /\ \E outcome \in Outcomes :
         /\ log' = Append(log, Request("list", CurCampaign, <<>>, outcome))
         /\ IF outcome = "ok"
            THEN /\ some_prod' = YandexResult(CurCampaign, last_id)
                 /\ pc' = "extend"
                 /\ UNCHANGED <<raised, printed>>
            ELSE /\ Caught(outcome)
                 /\ UNCHANGED some_prod
    /\ UNCHANGED <<coroutine, script, price, converted, lst, n, groups,
                   watch_remnants, offer_ids, listing, sheet, stocks, prices,
                   queue, pending, last_id, product_list, server>>

\* lines 144-151 under main: the rest of one turn of the loop; on break the
\* shopSku of the accumulated entries are returned to line 308 or 317
MarketMainExtend ==
    /\ script = "market" /\ pc = "extend"
    /\ product_list' = product_list \o some_prod.offerMappingEntries
    /\ last_id' = some_prod.paging.nextPageToken
    /\ IF Falsy(last_id')
       THEN /\ offer_ids' = [k \in 1..Len(product_list') |->
                                product_list'[k].offer.shopSku]
            /\ pc' = "create_stocks"
       ELSE /\ pc' = "get_product_list"
            /\ UNCHANGED offer_ids
    /\ UNCHANGED <<coroutine, script, price, converted, lst, n, groups,
                   watch_remnants, listing, sheet, stocks, prices, queue, log,
                   raised, printed, pending, some_prod, server>>

\* lines 310-311 and 319-320: stocks = create_stocks(...);
\* list(divide(stocks, 2000))
MarketMainCreateStocks ==
    /\ script = "market" /\ pc = "create_stocks"
    /\ \E date \in Dates :
         LET r == market_create_stocks(watch_remnants, offer_ids,
                                       Warehouse(CurCampaign), date)
         IN  /\ offer_ids' = r.offer_ids
             /\ IF r.raised = "none"
                THEN /\ stocks' = r.stocks
                     /\ queue' = divide(r.stocks, MARKET_STOCKS_CHUNK)
                     /\ pc' = "update_stocks"
                     /\ UNCHANGED <<raised, printed>>
                ELSE /\ Caught(r.raised)
                     /\ UNCHANGED <<stocks, queue>>
    /\ UNCHANGED <<PagingVars, coroutine, script, price, converted, lst, n,
                   groups, watch_remnants, listing, sheet, prices, log,
                   pending>>

\* lines 312 and 321: one turn of the loop, update_stocks(some_stock, ...)
MarketUpdateStocks ==
    /\ script = "market" /\ pc = "update_stocks" /\ queue # <<>>
    /\ \E outcome \in Outcomes :
         /\ log' = Append(log, Request("stocks", CurCampaign, Head(queue),
                                       outcome))
         /\ IF outcome = "ok"
            THEN /\ queue' = Tail(queue)
                 /\ UNCHANGED <<pc, raised, printed>>
            ELSE /\ Caught(outcome)
                 /\ UNCHANGED queue
    /\ UNCHANGED <<PagingVars, coroutine, script, price, converted, lst, n,
                   groups, watch_remnants, offer_ids, listing, sheet, stocks,
                   prices, pending>>

\* lines 314 and 323: upload_prices(...) is an async def called without
\* await: the call builds a coroutine object and runs none of its body
MarketUploadPrices ==
    /\ script = "market" /\ pc = "update_stocks" /\ queue = <<>>
    /\ pending' = Append(pending, [coroutine |-> "upload_prices",
                                   campaign |-> CurCampaign])
    /\ pc' = IF CurCampaign = "fbs" THEN "get_offer_ids" ELSE "returned"
    /\ UNCHANGED <<PagingVars, coroutine, script, price, converted, lst, n,
                   groups, watch_remnants, offer_ids, listing, sheet, stocks,
                   prices, queue, log, raised, printed>>

NextMain ==
    \/ SellerGetOfferIds
    \/ SellerMainGetProductList
    \/ SellerMainExtend
    \/ SellerDownloadStock
    \/ SellerMainCreateStocks
    \/ SellerUpdateStocks
    \/ SellerMainCreatePrices
    \/ SellerUpdatePrice
    \/ SellerReturn
    \/ MarketDownloadStock
    \/ MarketGetOfferIds
    \/ MarketMainGetProductList
    \/ MarketMainExtend
    \/ MarketMainCreateStocks
    \/ MarketUpdateStocks
    \/ MarketUploadPrices

SpecMain == InitMain /\ [][NextMain]_vars

----------------------------------------------------------------------------
(* The upload coroutines, run to their end by whoever awaits them.  They    *)
(* have no try block: what a call raises leaves the coroutine.              *)

\* chunk sizes of the push loops of the coroutines
SELLER_UPLOAD_PRICES_CHUNK == 1000
SELLER_UPLOAD_STOCKS_CHUNK == 100
MARKET_UPLOAD_PRICES_CHUNK == 500
MARKET_UPLOAD_STOCKS_CHUNK == 2000

Coroutines == {"upload_prices", "upload_stocks"}

UploadChunk(s, f) ==
    IF s = "seller"
    THEN (IF f = "upload_prices" THEN SELLER_UPLOAD_PRICES_CHUNK
          ELSE SELLER_UPLOAD_STOCKS_CHUNK)
    ELSE (IF f = "upload_prices" THEN MARKET_UPLOAD_PRICES_CHUNK
          ELSE MARKET_UPLOAD_STOCKS_CHUNK)

\* a listing long enough to need two batches of k stock items, and the
\* spreadsheet that goes with it
BulkSkus(k) == [i \in 1..(k + 1) |-> IntToStr(i)]

BulkRows == <<Row(PyInt(1), PyStr(GT10)), Row(PyInt(2), PyInt(7))>>

ShortListings ==
    {<<>>, <<(<<"1">>)>>, <<(<<"2">>), (<<"2">>)>>,
     <<(<<"1">>), (<<"2">>), (<<"3">>)>>}

\* the arguments and the marketplace of one run of coroutine f
InitUpload ==
    /\ script \in {"seller", "market"} /\ pc = "start"
    /\ \E f \in Coroutines : \E c \in Campaigns(script) :
         /\ coroutine = [name |-> f, campaign |-> c, result |-> <<>>]
         /\ \/ /\ watch_remnants \in MainSheets
               /\ listing \in [{c} -> ShortListings]
            \/ /\ watch_remnants = BulkRows
               /\ listing = [cc \in {c} |-> BulkSkus(UploadChunk(script, f))]
    /\ sheet = watch_remnants
    /\ server \in MainServers(script, listing)
    /\ last_id = <<>> /\ product_list = <<>> /\ some_prod = <<>>
    /\ offer_ids = <<>> /\ stocks = <<>> /\ prices = <<>> /\ raised = "none"
    /\ queue = <<>> /\ log = <<>> /\ printed = "none" /\ pending = <<>>
    /\ PriceIdle /\ DivideIdle

\* the exception exc leaves the coroutine
Propagated(exc) ==
    /\ raised' = exc
    /\ pc' = "propagated"

\* the requests update_price / update_stocks send
PushOp(f) == IF f = "upload_prices" THEN "prices" ELSE "stocks"

\* ---- seller.upload_prices, seller.upload_stocks

\* lines 289 and 297 enter get_offer_ids, lines 67-68
SellerUploadGetOfferIds ==
    /\ script = "seller" /\ pc = "start"
    /\ last_id' = PyStr(<<>>)
    /\ product_list' = <<>>
    /\ pc' = "get_product_list"
    /\ UNCHANGED <<coroutine, script, price, converted, lst, n, groups,
                   watch_remnants, offer_ids, listing, sheet, stocks, prices,
                   queue, log, raised, printed, pending, some_prod, server>>

\* line 70 under a coroutine
SellerUploadGetProductList ==
    /\ script = "seller" /\ pc = "get_product_list"
    /\ ListRequests("ozon") < MaxListRequests
    /\ \E outcome \in Outcomes :
         /\ log' = Append(log, Request("list", "ozon", <<>>, outcome))
         /\ IF outcome = "ok"
            THEN /\ some_prod' = OzonResult(last_id)
                 /\ pc' = "extend"
                 /\ UNCHANGED raised
            ELSE /\ Propagated(outcome)
                 /\ UNCHANGED some_prod
    /\ UNCHANGED <<coroutine, script, price, converted, lst, n, groups,
                   watch_remnants, offer_ids, listing, sheet, stocks, prices,
                   queue, printed, pending, last_id, product_list, server>>

\* lines 71-79 under a coroutine
SellerUploadExtend ==
    /\ script = "seller" /\ pc = "extend"
    /\ product_list' = product_list \o some_prod.items
    /\ last_id' = some_prod.last_id
    /\ IF some_prod.total = Len(product_list')
       THEN /\ offer_ids' = [k \in 1..Len(product_list') |->
                                product_list'[k].offer_id]
            /\ pc' = "create"
       ELSE /\ pc' = "get_product_list"
            /\ UNCHANGED offer_ids
    /\ UNCHANGED <<coroutine, script, price, converted, lst, n, groups,
                   watch_remnants, listing, sheet, stocks, prices, queue, log,
                   raised, printed, pending, some_prod, server>>

\* lines 290-291: prices = create_prices(...); list(divide(prices, 1000))
SellerUploadCreatePrices ==
    /\ script = "seller" /\ pc = "create"
    /\ coroutine.name = "upload_prices"
    /\ LET r == seller_create_prices(watch_remnants, offer_ids)
       IN  /\ prices' = r.prices
           /\ offer_ids' = r.offer_ids
           /\ queue' = divide(r.prices, SELLER_UPLOAD_PRICES_CHUNK)
    /\ pc' = "push"
    /\ UNCHANGED <<PagingVars, coroutine, script, price, converted, lst, n,
                   groups, watch_remnants, listing, sheet, stocks, log,
                   raised, printed, pending>>

\* lines 298-299: stocks = create_stocks(...); list(divide(stocks, 100))
SellerUploadCreateStocks ==
    /\ script = "seller" /\ pc = "create"
    /\ coroutine.name = "upload_stocks"
    /\ LET r == seller_create_stocks(watch_remnants, offer_ids)
       IN  /\ offer_ids' = r.offer_ids
           /\ IF r.raised = "none"
              THEN /\ stocks' = r.stocks
                   /\ queue' = divide(r.stocks, SELLER_UPLOAD_STOCKS_CHUNK)
                   /\ pc' = "push"
                   /\ UNCHANGED raised
              ELSE /\ Propagated(r.raised)
                   /\ UNCHANGED <<stocks, queue>>
    /\ UNCHANGED <<PagingVars, coroutine, script, price, converted, lst, n,
                   groups, watch_remnants, listing, sheet, prices, log,
                   printed, pending>>

\* lines 292 and 300: one turn of the loop, update_price / update_stocks
SellerUploadPush ==
    /\ script = "seller" /\ pc = "push" /\ queue # <<>>
    /\ \E outcome \in Outcomes :
         /\ log' = Append(log, Request(PushOp(coroutine.name), "ozon",
                                       Head(queue), outcome))
         /\ IF outcome = "ok"
            THEN /\ queue' = Tail(queue)
                 /\ UNCHANGED <<pc, raised>>
            ELSE /\ Propagated(outcome)
                 /\ UNCHANGED queue
    /\ UNCHANGED <<PagingVars, coroutine, script, price, converted, lst, n,
                   groups, watch_remnants, offer_ids, listing, sheet, stocks,
                   prices, printed, pending>>

SellerNotEmpty(stock) == stock.stock # 0

\* lines 293 and 301-302: return prices / return not_empty, stocks
SellerUploadReturn ==
    /\ script = "seller" /\ pc = "push" /\ queue = <<>>
    /\ coroutine' =
         [coroutine EXCEPT !.result =
              IF coroutine.name = "upload_prices" THEN prices
              ELSE <<SelectSeq(stocks, SellerNotEmpty), stocks>>]
    /\ pc' = "upload_returned"
    /\ UNCHANGED <<PagingVars, script, price, converted, lst, n, groups,
                   watch_remnants, offer_ids, listing, sheet, stocks, prices,
                   queue, log, raised, printed, pending>>

\* ---- market.upload_prices, market.upload_stocks

\* lines 279 and 287 enter get_offer_ids, lines 140-141
MarketUploadGetOfferIds ==
    /\ script = "market" /\ pc = "start"
    /\ last_id' = PyStr(<<>>)
    /\ product_list' = <<>>
    /\ pc' = "get_product_list"
    /\ UNCHANGED <<coroutine, script, price, converted, lst, n, groups,
                   watch_remnants, offer_ids, listing, sheet, stocks, prices,
                   queue, log, raised, printed, pending, some_prod, server>>

\* line 143 under a coroutine
MarketUploadGetProductList ==
    /\ script = "market" /\ pc = "get_product_list"
    /\ ListRequests(coroutine.campaign) < MaxListRequests
    /\ \E outcome \in Outcomes :
         /\ log' = Append(log, Request("list", coroutine.campaign, <<>>,
                                       outcome))
         /\ IF outcome = "ok"
            THEN /\ some_prod' = YandexResult(coroutine.campaign, last_id)
                 /\ pc' = "extend"
                 /\ UNCHANGED raised
            ELSE /\ Propagated(outcome)
                 /\ UNCHANGED some_prod
    /\ UNCHANGED <<coroutine, script, price, converted, lst, n, groups,
                   watch_remnants, offer_ids, listing, sheet, stocks, prices,
                   queue, printed, pending, last_id, product_list, server>>

\* lines 144-151 under a coroutine
MarketUploadExtend ==
    /\ script = "market" /\ pc = "extend"
    /\ product_list' = product_list \o some_prod.offerMappingEntries
    /\ last_id' = some_prod.paging.nextPageToken
    /\ IF Falsy(last_id')
       THEN /\ offer_ids' = [k \in 1..Len(product_list') |->
                                product_list'[k].offer.shopSku]
            /\ pc' = "create"
       ELSE /\ pc' = "get_product_list"
            /\ UNCHANGED offer_ids
    /\ UNCHANGED <<coroutine, script, price, converted, lst, n, groups,
                   watch_remnants, listing, sheet, stocks, prices, queue, log,
                   raised, printed, pending, some_prod, server>>

\* lines 280-281: prices = create_prices(...); list(divide(prices, 500))
MarketUploadCreatePrices ==
    /\ script = "market" /\ pc = "create"
    /\ coroutine.name = "upload_prices"
    /\ LET r == market_create_prices(watch_remnants, offer_ids)
       IN  /\ offer_ids' = r.offer_ids
           /\ IF r.raised = "none"
              THEN /\ prices' = r.prices
                   /\ queue' = divide(r.prices, MARKET_UPLOAD_PRICES_CHUNK)
                   /\ pc' = "push"
                   /\ UNCHANGED raised
              ELSE /\ Propagated(r.raised)
                   /\ UNCHANGED <<prices, queue>>
    /\ UNCHANGED <<PagingVars, coroutine, script, price, converted, lst, n,
                   groups, watch_remnants, listing, sheet, stocks, log,
                   printed, pending>>

\* lines 288-289: stocks = create_stocks(...); list(divide(stocks, 2000))
MarketUploadCreateStocks ==
    /\ script = "market" /\ pc = "create"
    /\ coroutine.name = "upload_stocks"
    /\ \E date \in Dates :
         LET r == market_create_stocks(watch_remnants, offer_ids,
                                       Warehouse(coroutine.campaign), date)
         IN  /\ offer_ids' = r.offer_ids
             /\ IF r.raised = "none"
                THEN /\ stocks' = r.stocks
                     /\ queue' = divide(r.stocks, MARKET_UPLOAD_STOCKS_CHUNK)
                     /\ pc' = "push"
                     /\ UNCHANGED raised
                ELSE /\ Propagated(r.raised)
                     /\ UNCHANGED <<stocks, queue>>
    /\ UNCHANGED <<PagingVars, coroutine, script, price, converted, lst, n,
                   groups, watch_remnants, listing, sheet, prices, log,
                   printed, pending>>

\* lines 282 and 290: one turn of the loop, update_price / update_stocks
MarketUploadPush ==
    /\ script = "market" /\ pc = "push" /\ queue # <<>>
    /\ \E outcome \in Outcomes :
         /\ log' = Append(log, Request(PushOp(coroutine.name),
                                       coroutine.campaign, Head(queue),
                                       outcome))
         /\ IF outcome = "ok"
            THEN /\ queue' = Tail(queue)
                 /\ UNCHANGED <<pc, raised>>
            ELSE /\ Propagated(outcome)
                 /\ UNCHANGED queue
    /\ UNCHANGED <<PagingVars, coroutine, script, price, converted, lst, n,
                   groups, watch_remnants, offer_ids, listing, sheet, stocks,
                   prices, printed, pending>>

MarketNotEmpty(stock) == stock.items[1].count # 0

\* lines 283 and 291-294: return prices / return not_empty, stocks
MarketUploadReturn ==
    /\ script = "market" /\ pc = "push" /\ queue = <<>>
    /\ coroutine' =
         [coroutine EXCEPT !.result =
              IF coroutine.name = "upload_prices" THEN prices
              ELSE <<SelectSeq(stocks, MarketNotEmpty), stocks>>]
    /\ pc' = "upload_returned"
    /\ UNCHANGED <<PagingVars, script, price, converted, lst, n, groups,
                   watch_remnants, offer_ids, listing, sheet, stocks, prices,
                   queue, log, raised, printed, pending>>

NextUpload ==
    \/ SellerUploadGetOfferIds
    \/ SellerUploadGetProductList
    \/ SellerUploadExtend
    \/ SellerUploadCreatePrices
    \/ SellerUploadCreateStocks
    \/ SellerUploadPush
    \/ SellerUploadReturn
    \/ MarketUploadGetOfferIds
    \/ MarketUploadGetProductList
    \/ MarketUploadExtend
    \/ MarketUploadCreatePrices
    \/ MarketUploadCreateStocks
    \/ MarketUploadPush
    \/ MarketUploadReturn

SpecUpload == InitUpload /\ [][NextUpload]_vars

----------------------------------------------------------------------------
(* Properties of the single calls *)

\* the SKU and the stock count of a stock update item of either marketplace
ItemSku(item) == IF script = "seller" THEN item.offer_id ELSE item.sku

ItemCount(item) == IF script = "seller" THEN item.stock ELSE item.items[1].count

\* the list of offer ids as it was passed to the call
Passed == listing[FirstCampaign(script)]

Occurrences(x, l) == Cardinality({i \in 1..Len(l) : l[i] = x})

\* the rows create_stocks computes an item from: the row's SKU is listed more
\* often than rows before it carry it
MatchedRows ==
    {i \in 1..Len(sheet) :
        Cardinality({j \in 1..(i - 1) :
                        py_str(sheet[j].code) = py_str(sheet[i].code)})
            < Occurrences(py_str(sheet[i].code), Passed)}

\* the m-th smallest member of a set of indices
NthOf(S, m) == CHOOSE i \in S : Cardinality({j \in S : j <= i}) = m

\* the count the quantity rule gives for the quantity cells of the model
ExpectedCount(q) ==
    IF q.t = "str"
    THEN CASE q.v = GT10 -> 100
           [] q.v = <<"1">> -> 0
           [] q.v = <<"5">> -> 5
           [] OTHER -> -1
    ELSE CASE q.v = 1 -> 0
           [] q.v = 7 -> 7
           [] OTHER -> -1

\* C1: when create_stocks (seller or market) returns, the m-th item of the
\* result is computed from the m-th listed row: it carries that row's SKU and
\* the count 100 for the quantity ">10", 0 for the quantity "1", and the
\* integer value of the quantity otherwise.
C1_StockCount ==
    (script \in {"seller", "market"} /\ pc = "stocks_done" /\ raised = "none") =>
        /\ Len(stocks) >= Cardinality(MatchedRows)
        /\ \A m \in 1..Cardinality(MatchedRows) :
             LET row == sheet[NthOf(MatchedRows, m)]
             IN  /\ ItemSku(stocks[m]) = py_str(row.code)
                 /\ ItemCount(stocks[m]) = ExpectedCount(row.quantity)

C1_Witness ==
    /\ pc = "stocks_done" /\ raised = "none"
    /\ Len(sheet) = 2
    /\ sheet[1].quantity = PyStr(<<"1">>)
    /\ sheet[2].quantity = PyInt(7)
    /\ Len(stocks) = 2
    /\ ItemCount(stocks[1]) = 0
    /\ ItemCount(stocks[2]) = 7

\* C2: when create_stocks (seller or market) returns, every listed SKU that
\* no spreadsheet row carries has a stock item, and its items have count 0.
C2_UnmatchedZero ==
    (script \in {"seller", "market"} /\ pc = "stocks_done" /\ raised = "none") =>
        \A sku \in Skus :
            (In(sku, Passed)
             /\ \A i \in 1..Len(sheet) : py_str(sheet[i].code) # sku) =>
                /\ \E k \in 1..Len(stocks) : ItemSku(stocks[k]) = sku
                /\ \A k \in 1..Len(stocks) :
                     ItemSku(stocks[k]) = sku => ItemCount(stocks[k]) = 0

C2_Witness ==
    /\ pc = "stocks_done" /\ raised = "none"
    /\ Passed = <<(<<"3">>), (<<"1">>)>>
    /\ Len(sheet) = 1 /\ sheet[1].code = PyInt(1)
    /\ sheet[1].quantity = PyStr(GT10)
    /\ Len(stocks) = 2
    /\ ItemSku(stocks[2]) = <<"3">> /\ ItemCount(stocks[2]) = 0
    /\ ItemCount(stocks[1]) = 100

\* C11: when create_stocks (seller or market) returns, its result has one
\* item per entry of the offer id list it was given: every SKU occurs in the
\* result as often as in that list, and the items computed from rows come
\* first, followed by zero-count items for the offer ids left over, in order.
C11_OneItemPerOffer ==
    (script \in {"seller", "market"} /\ pc = "stocks_done" /\ raised = "none") =>
        LET m == Cardinality(MatchedRows)
            skus == [k \in 1..Len(stocks) |-> ItemSku(stocks[k])]
        IN  /\ Len(stocks) = Len(Passed)
            /\ \A k \in 1..Len(stocks) :
                 /\ In(skus[k], Passed)
                 /\ Occurrences(skus[k], skus) = Occurrences(skus[k], Passed)
            /\ \A k \in 1..Len(Passed) :
                 Occurrences(Passed[k], skus) = Occurrences(Passed[k], Passed)
            /\ m <= Len(stocks)
            /\ \A k \in 1..m :
                 skus[k] = py_str(sheet[NthOf(MatchedRows, k)].code)
            /\ \A k \in (m + 1)..Len(stocks) :
                 /\ ItemCount(stocks[k]) = 0
                 /\ skus[k] = offer_ids[k - m]
            /\ Len(offer_ids) = Len(stocks) - m

C11_Witness ==
    /\ pc = "stocks_done" /\ raised = "none"
    /\ Passed = <<(<<"2">>), (<<"2">>)>>
    /\ Len(sheet) = 2
    /\ sheet[1].code = PyInt(1) /\ sheet[2].code = PyInt(2)
    /\ sheet[2].quantity = PyInt(7)
    /\ Len(stocks) = 2
    /\ ItemSku(stocks[1]) = <<"2">> /\ ItemCount(stocks[1]) = 7
    /\ ItemSku(stocks[2]) = <<"2">> /\ ItemCount(stocks[2]) = 0

\* C3: create_stocks yields a result for every quantity of a listed row (a
\* number, ">10", or an empty cell): it never ends by raising.
C3_Total == pc = "stocks_done" => raised = "none"

\* C8: after create_stocks or create_prices the caller's offer id list and
\* remnant list are as they were passed.
C8_ByValue ==
    pc \in {"stocks_done", "prices_done"} =>
        /\ offer_ids = Passed
        /\ watch_remnants = sheet

\* C4: price_conversion returns the digits of the text before the first "."
\* in their order, and nothing else.
C4_PriceConversion ==
    pc = "price_returned" =>
        LET cut == CHOOSE k \in 0..Len(price) :
                      /\ \A i \in 1..k : price[i] # "."
                      /\ (k = Len(price) \/ price[k + 1] = ".")
            D == {i \in 1..cut : price[i] \in Digits}
        IN  /\ DOMAIN converted = 1..Cardinality(D)
            /\ \A j \in 1..Cardinality(D) : converted[j] = price[NthOf(D, j)]

C4_Witness ==
    /\ pc = "price_returned"
    /\ price = ExamplePrice
    /\ converted = <<"5", "9", "9", "0">>

\* C5: divide yields ceil(L/N) groups, all of N items except the last, which
\* has between 1 and N items; an empty list yields no group.
C5_Divide ==
    pc = "divide_returned" =>
        LET L == Len(lst)
            G == Len(groups)
        IN  /\ G = (L + n - 1) \div n
            /\ \A g \in 1..(G - 1) : Len(groups[g]) = n
            /\ G > 0 => Len(groups[G]) \in 1..n
            /\ L = 0 => groups = <<>>

C5_Witness ==
    /\ pc = "divide_returned"
    /\ Len(lst) = 7 /\ n = 3
    /\ Len(groups) = 3 /\ Len(groups[3]) = 1

----------------------------------------------------------------------------
(* Properties of the main() runs *)

StocksChunk == IF script = "seller" THEN SELLER_STOCKS_CHUNK ELSE MARKET_STOCKS_CHUNK

\* the j-th batch of a list cut into batches of k items
Chunk(l, k, j) == SubSeq(l, (j - 1) * k + 1, Min(j * k, Len(l)))

IsCurStockPush(e) == e.op = "stocks" /\ e.campaign = CurCampaign

IsPricePush(e) == e.op = "prices"

\* C6: batches are pushed in list order, each at most once, and a failed
\* request is the last request of the run: when the k-th push fails, the
\* pushes before it are the batches 1..k-1 and nothing follows it.
C6_AbortOnFailure ==
    script \in {"seller", "market"} =>
        LET S == SelectSeq(log, IsCurStockPush)
            P == SelectSeq(log, IsPricePush)
        IN  /\ \A i \in 1..Len(log) :
                 ~log[i].ok => (i = Len(log) /\ pc \in {"returned", "propagated"})
            /\ \A j \in 1..Len(S) :
                 /\ S[j].body = Chunk(stocks, StocksChunk, j)
                 /\ S[j].body # <<>>
            /\ \A j \in 1..Len(P) :
                 /\ P[j].body = Chunk(prices, SELLER_PRICES_CHUNK, j)
                 /\ P[j].body # <<>>
            /\ \A i \in 1..Len(log) : \A j \in (i + 1)..Len(log) :
                 ~(log[i].op = "prices" /\ log[j].op = "stocks"
                   /\ log[i].campaign = log[j].campaign)
            /\ P # <<>> => Len(S) * StocksChunk >= Len(stocks)

C6_Witness ==
    /\ pc = "returned"
    /\ Len(log) >= 2
    /\ log[Len(log) - 1].op = "stocks" /\ log[Len(log) - 1].ok
    /\ log[Len(log)].op = "stocks" /\ ~log[Len(log)].ok
    /\ log[Len(log)].campaign = log[Len(log) - 1].campaign
    /\ log[Len(log)].body = Chunk(stocks, StocksChunk, 2)
    /\ queue # <<>>

\* C7: an HTTP failure raised by any network call of a run is caught by the
\* handler of main, which prints a message and returns.
C7_AllCaught ==
    raised \in HttpFailures => (pc = "returned" /\ printed # "none")

\* the items of all accepted price pushes of campaign c, in order
RECURSIVE PushedPrices(_, _)
PushedPrices(l, c) ==
    IF l = <<>> THEN <<>>
    ELSE (IF Head(l).op = "prices" /\ Head(l).campaign = c /\ Head(l).ok
          THEN Head(l).body ELSE <<>>) \o PushedPrices(Tail(l), c)

ListedRows(c) == {i \in 1..Len(sheet) : In(py_str(sheet[i].code), listing[c])}

\* the offer ids get_offer_ids of seller.py returned: those of the items it
\* accumulated
Fetched == [k \in 1..Len(product_list) |-> product_list[k].offer_id]

FetchedRows == {i \in 1..Len(sheet) : In(py_str(sheet[i].code), Fetched)}

\* C9: a failure-free run of seller.main pushes one price item for every
\* spreadsheet row whose SKU is in the offer id list fetched at the start.
C9_PricesForListedRows ==
    (script = "seller" /\ pc = "returned" /\ raised = "none") =>
        LET pushed == PushedPrices(log, "ozon")
        IN  /\ Len(pushed) = Cardinality(FetchedRows)
            /\ \A i \in FetchedRows :
                 \E k \in 1..Len(pushed) :
                    pushed[k].offer_id = py_str(sheet[i].code)

\* C10: a failure-free run of market.main pushes, for each campaign, the
\* prices of every listed SKU found in the spreadsheet after that campaign's
\* stocks, and the FBS price pushes come before the first DBS request.
C10_PricesPushedInOrder ==
    (script = "market" /\ pc = "returned" /\ raised = "none") =>
        /\ \A c \in {"fbs", "dbs"} : \A i \in ListedRows(c) :
             \E k \in 1..Len(PushedPrices(log, c)) :
                PushedPrices(log, c)[k].id = py_str(sheet[i].code)
        /\ \A i \in 1..Len(log) : \A j \in 1..Len(log) :
             (log[i].op = "stocks" /\ log[j].op = "prices"
              /\ log[i].campaign = log[j].campaign) => i < j
        /\ \A i \in 1..Len(log) : \A j \in 1..Len(log) :
             (log[i].campaign = "fbs" /\ log[j].campaign = "dbs") => i < j

----------------------------------------------------------------------------
(* get_offer_ids run on its own *)

InitPaging ==
    /\ script \in {"seller", "market"} /\ pc = "get_product_list"
    /\ \E l \in BoundedSeq(Skus, MaxListed) :
         /\ listing = [c \in {FirstCampaign(script)} |-> l]
         /\ \E k \in 1..MaxPage : \E t \in 0..(MaxListed + 1) :
              /\ script = "market" => t = Len(l)
              /\ server = [page_len |-> k, total |-> t]
    /\ last_id = PyStr(<<>>) /\ product_list = <<>> /\ some_prod = <<>>
    /\ sheet = <<>>
    /\ PriceIdle /\ DivideIdle /\ CreateIdle /\ MainIdle

\* seller.py line 70: some_prod = get_product_list(last_id, ...)
SellerGetProductList ==
    /\ script = "seller" /\ pc = "get_product_list"
    /\ \E outcome \in Outcomes :
         IF outcome = "ok"
         THEN /\ some_prod' = OzonResult(last_id)
              /\ pc' = "extend"
              /\ UNCHANGED raised
         ELSE /\ raised' = outcome
              /\ pc' = "offer_ids_raised"
              /\ UNCHANGED some_prod
    /\ UNCHANGED <<coroutine, script, price, converted, lst, n, groups,
                   watch_remnants, offer_ids, listing, sheet, stocks, prices,
                   queue, log, printed, pending, last_id, product_list, server>>

\* seller.py lines 71-79: the rest of one turn of the loop and, on break,
\* the offer ids of the accumulated items
SellerExtend ==
    /\ script = "seller" /\ pc = "extend"
    /\ product_list' = product_list \o some_prod.items
    /\ last_id' = some_prod.last_id
    /\ IF some_prod.total = Len(product_list')
       THEN /\ offer_ids' = [k \in 1..Len(product_list') |->
                                product_list'[k].offer_id]
            /\ pc' = "offer_ids_returned"
       ELSE /\ pc' = "get_product_list"
            /\ UNCHANGED offer_ids
    /\ UNCHANGED <<coroutine, script, price, converted, lst, n, groups,
                   watch_remnants, listing, sheet, stocks, prices, queue, log,
                   raised, printed, pending, some_prod, server>>

\* market.py line 143: some_prod = get_product_list(page, ...)
MarketGetProductList ==
    /\ script = "market" /\ pc = "get_product_list"
    /\ \E outcome \in Outcomes :
         IF outcome = "ok"
         THEN /\ some_prod' = YandexResult("fbs", last_id)
              /\ pc' = "extend"
              /\ UNCHANGED raised
         ELSE /\ raised' = outcome
              /\ pc' = "offer_ids_raised"
              /\ UNCHANGED some_prod
    /\ UNCHANGED <<coroutine, script, price, converted, lst, n, groups,
                   watch_remnants, offer_ids, listing, sheet, stocks, prices,
                   queue, log, printed, pending, last_id, product_list, server>>

\* market.py lines 144-151: the rest of one turn of the loop and, on break,
\* the shopSku of the accumulated entries
MarketExtend ==
    /\ script = "market" /\ pc = "extend"
    /\ product_list' = product_list \o some_prod.offerMappingEntries
    /\ last_id' = some_prod.paging.nextPageToken
    /\ IF Falsy(last_id')
       THEN /\ offer_ids' = [k \in 1..Len(product_list') |->
                                product_list'[k].offer.shopSku]
            /\ pc' = "offer_ids_returned"
       ELSE /\ pc' = "get_product_list"
            /\ UNCHANGED offer_ids
    /\ UNCHANGED <<coroutine, script, price, converted, lst, n, groups,
                   watch_remnants, listing, sheet, stocks, prices, queue, log,
                   raised, printed, pending, some_prod, server>>

NextPaging ==
    \/ SellerGetProductList
    \/ SellerExtend
    \/ MarketGetProductList
    \/ MarketExtend

\* the script keeps running: a step that can be taken is taken
SpecPaging == InitPaging /\ [][NextPaging]_vars /\ WF_vars(NextPaging)

\* C12: get_offer_ids ends after finitely many page requests, for every
\* server that serves a finite listing, whatever total it reports.
C12_Terminates == <>(pc \in {"offer_ids_returned", "offer_ids_raised"})

====
